---- MODULE Spec2Model ----
(***************************************************************************)
(* Model of the block-based virtual file system of src/blocks.ts           *)
(* (VirtualFileSystemBlockDO): the two relations `files` and `blocks`, the *)
(* operations writeFile, readFile, unlink, mkdir, rmdir, readdir and stat, *)
(* and the transaction that writeFile runs its three kinds of statement    *)
(* in.  A path is the sequence of its characters, so that split("/"),      *)
(* join("/") and SQL LIKE are computed character by character.             *)
(***************************************************************************)
EXTENDS Integers, Sequences, FiniteSets, Bags, TLC

VARIABLES files, blocks, clock, pc, tx, last, shards, single, chain

vars == <<files, blocks, clock, pc, tx, last, shards, single, chain>>

\* ------------------------------------------------------------------ bounds
\* Date.now() takes the values 0..MaxClock.
MaxClock == 1

\* The block size of the storage format.  blocks.ts fixes it at 4096; the
\* code uses it only through its name, and it is scaled down here so that
\* contents of 0, BLOCK_SIZE and BLOCK_SIZE + 1 bytes can be enumerated.
BLOCK_SIZE == 2

\* The deepest chain of awaiting mkdir calls followed; the paths called have
\* fewer segments.
MaxDepth == 4

\* SQL NULL (the size column of a directory row): a value no byte count
\* takes.
NULL == -1

IsNull(v) == v = NULL

Sep == "/"

\* --------------------------------------------------------------- inputs
\* The paths the operations are called with: a three-level chain.
PathA == <<"a">>

PathAB == <<"a", "/", "b">>

PathABC == <<"a", "/", "b", "/", "c">>

Paths == {PathA, PathAB, PathABC}

\* Byte content of length n whose bytes depend on their position and on a seed.
Bytes(n, seed) == [i \in 1..n |-> (i * 7 + seed) % 256]

Empty == Bytes(0, 0)

OneBlock == Bytes(BLOCK_SIZE, 1)

TwoBlocks == Bytes(BLOCK_SIZE + 1, 2)

\* Contents written: empty, exactly BLOCK_SIZE, BLOCK_SIZE + 1.
Contents == {Empty, OneBlock, TwoBlocks}

\* Paths whose names differ in letter case only: a/b, a/B and a/B/c.
PathAUB == <<"a", "/", "B">>

PathAUBC == <<"a", "/", "B", "/", "c">>

LikePaths == {PathAB, PathAUB, PathAUBC}

LikeContents == {OneBlock}

\* The inputs of the runs in which the clock moves.
ClockPaths == {PathA, PathAB}

ClockContents == {Empty, TwoBlocks}

\* The paths called on both engines side by side, a root, a child and a
\* case variant of the child, and the contents written.
BothPaths == {PathA, PathAB, PathAUB}

BothContents == {Empty, TwoBlocks}

\* The paths VirtualFS is called with: two roots, a nested path, a path
\* with a trailing separator, the empty path and a path with a leading
\* separator.
PathB == <<"b">>

PathATrail == <<"a", "/">>

PathEmpty == <<>>

PathLead == <<"/", "a">>

FsPaths == {PathA, PathAB, PathB, PathATrail, PathEmpty, PathLead}

FsContents == {OneBlock}

\* The names an actor can be asked for (the empty name included).
ShardNames == {<<"a">>, <<"b">>, <<>>}

\* Paths with a doubled, a trailing and a leading separator, the empty path
\* and a three-level path, for the recursion of mkdir.
PathDouble == <<"a", "/", "/", "b">>

ChainPaths == {PathABC, PathDouble, PathATrail, PathLead, PathEmpty}

ChainContents == {OneBlock}

\* ------------------------------------------------ String.split / Array.join
HasSep(s) == \E i \in 1..Len(s) : s[i] = Sep

FirstSep(s) == CHOOSE i \in 1..Len(s) : s[i] = Sep /\ \A j \in 1..(i - 1) : s[j] # Sep

RECURSIVE Split(_)
\* path.split("/"): the segments of s, empty segments included.
Split(s) ==
    IF ~HasSep(s) THEN <<s>>
    ELSE <<SubSeq(s, 1, FirstSep(s) - 1)>> \o Split(SubSeq(s, FirstSep(s) + 1, Len(s)))

RECURSIVE Join(_)
\* segments.join("/")
Join(segs) ==
    IF segs = <<>> THEN <<>>
    ELSE IF Len(segs) = 1 THEN segs[1]
    ELSE segs[1] \o <<Sep>> \o Join(Tail(segs))

\* Faulty variant: the last segment is not sliced off, the parent of a path
\* is the path itself
ParentDirNoSlice(path) == Join(Split(path))

\* path.split("/").slice(0, -1).join("/")
ParentDir(path) == Join(SubSeq(Split(path), 1, Len(Split(path)) - 1))

\* ------------------------------------------------------------- SQL LIKE
\* SQLite's LIKE folds the case of ASCII letters.
Lower(c) == CASE c = "A" -> "a" [] c = "B" -> "b" [] c = "C" -> "c" [] OTHER -> c

RECURSIVE Like(_, _)
\* str LIKE pat: '%' matches any run of characters, '_' any one character.
Like(pat, str) ==
    IF pat = <<>> THEN str = <<>>
    ELSE IF Head(pat) = "%"
        THEN \E k \in 0..Len(str) : Like(Tail(pat), SubSeq(str, k + 1, Len(str)))
    ELSE IF str = <<>> THEN FALSE
    ELSE IF Head(pat) = "_" THEN Like(Tail(pat), Tail(str))
    ELSE Lower(Head(pat)) = Lower(Head(str)) /\ Like(Tail(pat), Tail(str))

\* ------------------------------------------------------- the files table
DirRow(now) == [type |-> "directory", size |-> NULL, created_at |-> now, updated_at |-> now]

FileRow(size, now) == [type |-> "file", size |-> size, created_at |-> now, updated_at |-> now]

\* Faulty variant: INSERT OR REPLACE: a row whose path is taken is overwritten.
InsertOrReplace(fs, path, row) == [q \in DOMAIN fs \cup {path} |-> IF q = path THEN row ELSE fs[q]]

\* Faulty variant: a row whose path is taken has its updated_at refreshed
InsertOrTouch(fs, path, row) ==
    IF path \in DOMAIN fs
    THEN [fs EXCEPT ![path].updated_at = row.updated_at]
    ELSE fs @@ (path :> row)

\* INSERT OR IGNORE INTO files: a row whose path is taken is left as it is.
InsertOrIgnore(fs, path, row) == IF path \in DOMAIN fs THEN fs ELSE fs @@ (path :> row)

\* Faulty variant: an upsert that also sets type = excluded.type on a conflict
UpsertSetsType(fs, path, size, now) ==
    IF path \in DOMAIN fs
    THEN [fs EXCEPT ![path].type = "file", ![path].size = size, ![path].updated_at = now]
    ELSE fs @@ (path :> FileRow(size, now))

\* Faulty variant: on a conflict created_at is set anew as well
UpsertSetsCreated(fs, path, size, now) ==
    IF path \in DOMAIN fs
    THEN [fs EXCEPT ![path].size = size, ![path].created_at = now, ![path].updated_at = now]
    ELSE fs @@ (path :> FileRow(size, now))

\* INSERT INTO files ... ON CONFLICT (path) DO UPDATE SET size, updated_at:
\* on a conflict the row keeps its type and created_at.
Upsert(fs, path, size, now) ==
    IF path \in DOMAIN fs
    THEN [fs EXCEPT ![path].size = size, ![path].updated_at = now]
    ELSE fs @@ (path :> FileRow(size, now))

\* DELETE FROM files WHERE path = ?
DeleteRow(fs, path) == [q \in DOMAIN fs \ {path} |-> fs[q]]

\* ------------------------------------------------------ the blocks table
\* Faulty variant: the delete of the old blocks left out
DeleteBlocksNone(bl, path) == bl

\* DELETE FROM blocks WHERE path = ?
DeleteBlocks(bl, path) == [k \in {x \in DOMAIN bl : x[1] # path} |-> bl[k]]

\* Faulty variant: the foreign key not enforced, nothing cascades
CascadeNone(bl, path) == bl

\* FOREIGN KEY (path) REFERENCES files(path) ON DELETE CASCADE: the blocks
\* left when the files row of path is deleted.
Cascade(bl, path) == [k \in {x \in DOMAIN bl : x[1] # path} |-> bl[k]]

\* INSERT INTO blocks (path, block_number, content)
InsertBlock(bl, path, block) == bl @@ (<<path, block.number>> :> block.data)

BlockNumbers(bl, path) == {k[2] : k \in {x \in DOMAIN bl : x[1] = path}}

\* ------------------------------------------------------- splitIntoBlocks
Min(a, b) == IF a < b THEN a ELSE b

\* data.slice(from, to) on a Uint8Array (0-based, to exclusive, clamped)
Slice(data, from, to) == SubSeq(data, from + 1, Min(to, Len(data)))

RECURSIVE SplitFromByteOffset(_, _)
\* Faulty variant: blocks numbered by their byte offset i, not by i / BLOCK_SIZE
SplitFromByteOffset(data, i) ==
    IF i < Len(data)
    THEN <<[number |-> i, data |-> Slice(data, i, i + BLOCK_SIZE)]>>
         \o SplitFromByteOffset(data, i + BLOCK_SIZE)
    ELSE <<>>

RECURSIVE SplitFromInclusive(_, _)
\* Faulty variant: the loop runs while i <= data.length, so a content whose
\* length is a multiple of BLOCK_SIZE gets an empty last block
SplitFromInclusive(data, i) ==
    IF i <= Len(data)
    THEN <<[number |-> i \div BLOCK_SIZE, data |-> Slice(data, i, i + BLOCK_SIZE)]>>
         \o SplitFromInclusive(data, i + BLOCK_SIZE)
    ELSE <<>>

RECURSIVE SplitFrom(_, _)
\* the loop of splitIntoBlocks from offset i on
SplitFrom(data, i) ==
    IF i < Len(data)
    THEN <<[number |-> i \div BLOCK_SIZE, data |-> Slice(data, i, i + BLOCK_SIZE)]>>
         \o SplitFrom(data, i + BLOCK_SIZE)
    ELSE <<>>

splitIntoBlocks(content) == SplitFrom(content, 0)

\* -------------------------------------------------------- assembleBlocks
\* A block written at its offset must fit the buffer (Uint8Array.set throws
\* a RangeError otherwise).
Overflows(bl, path, size) ==
    \E n \in BlockNumbers(bl, path) : n * BLOCK_SIZE + Len(bl[<<path, n>>]) > size

\* The buffer of `size` zero bytes after every block was copied to its
\* offset in block_number order (a later block overwrites an earlier one).
Assembled(bl, path, size) ==
    [i \in 1..size |->
        LET hit == {n \in BlockNumbers(bl, path) :
                        /\ n * BLOCK_SIZE < i
                        /\ i <= n * BLOCK_SIZE + Len(bl[<<path, n>>])}
        IN IF hit = {} THEN 0
           ELSE LET n == CHOOSE m \in hit : \A o \in hit : o <= m
                IN bl[<<path, n>>][i - n * BLOCK_SIZE]]

assembleBlocks(fs, bl, path) ==
    IF path \notin DOMAIN fs \/ fs[path].type # "file"
    THEN [result |-> "ENOENT", ret |-> <<>>]
    ELSE IF Overflows(bl, path, fs[path].size)
    THEN [result |-> "RangeError", ret |-> <<>>]
    ELSE [result |-> "ok", ret |-> Assembled(bl, path, fs[path].size)]

\* ------------------------------------------------------------------ mkdir
RECURSIVE mkdir(_, _, _)
\* The files table after mkdir(path): the parent chain first, then path.
\* Each level reads Date.now() for itself; the levels of one call run
\* back to back and are given the same reading.
mkdir(fs, path, now) ==
    LET parentDir == ParentDir(path)
        fs1 == IF parentDir # <<>> THEN mkdir(fs, parentDir, now) ELSE fs
    IN InsertOrIgnore(fs1, path, DirRow(now))

\* ------------------------------------------------------- rmdir / readdir
\* Faulty variant: the emptiness check left out
hasChildrenNone(fs, path) == FALSE

\* SELECT 1 FROM files WHERE path LIKE ? || '/%' LIMIT 1
hasChildren(fs, path) == \E q \in DOMAIN fs : Like(path \o <<Sep, "%">>, q)

\* SELECT path FROM files WHERE path LIKE ? || '/%' AND path NOT LIKE ? || '/%/%'
children(fs, path) ==
    {q \in DOMAIN fs : /\ Like(path \o <<Sep, "%">>, q)
                       /\ ~Like(path \o <<Sep, "%", Sep, "%">>, q)}

\* parts[parts.length - 1]
LastPart(q) == Split(q)[Len(Split(q))]

\* The names readdir returns, as a bag (the order of the rows is not fixed).
readdirNames(fs, path) ==
    LET ch == children(fs, path)
        names == {LastPart(q) : q \in ch}
    IN [n \in names |-> Cardinality({q \in ch : LastPart(q) = n})]

\* ------------------------------------------------------------------ state
NoTx == [path |-> <<>>, content |-> <<>>, now |-> 0, idx |-> 0, files |-> <<>>, blocks |-> <<>>]

\* The files row of path, if any, and the blocks of path by number.
RowOf(fs, path) == IF path \in DOMAIN fs THEN <<fs[path]>> ELSE <<>>

BlocksOf(bl, path) == [n \in BlockNumbers(bl, path) |-> bl[<<path, n>>]]

\* The record of the call that ended last: its operation, path, content
\* argument, result and returned value; `pre` keeps, for writeFile and
\* unlink, what path held when the call was made.
Done(op, path, arg, result, ret) ==
    [op |-> op, path |-> path, arg |-> arg, result |-> result, ret |-> ret, pre |-> <<>>]

\* No mkdir is running: the chain of mkdir calls, each awaiting the mkdir
\* of its parent, is empty.  `op`, `path` and `content` are the call that
\* entered mkdir, `calls` the number of times mkdir was entered for it.
NoChain == [phase |-> "idle", op |-> "none", path |-> <<>>, content |-> <<>>,
            stack |-> <<>>, calls |-> 0]

\* The single-row actor (fs.ts) before any call: an empty files table and
\* no call made.
NoSingle == [files |-> <<>>, result |-> "ok", ret |-> <<>>]

\* The namespace of actors before any was addressed: every name has an
\* actor with empty tables.
NoShards == [r \in ShardNames |-> [files |-> <<>>, blocks |-> <<>>]]

Init ==
    /\ files = <<>>
    /\ blocks = <<>>
    /\ clock = 0
    /\ pc = "idle"
    /\ tx = NoTx
    /\ last = Done("none", <<>>, <<>>, "ok", <<>>)
    /\ shards = NoShards
    /\ single = NoSingle
    /\ chain = NoChain

\* Date.now() moves on.
Tick ==
    /\ clock < MaxClock
    /\ clock' = clock + 1
    /\ UNCHANGED <<files, blocks, pc, tx, last>>
    /\ UNCHANGED <<shards, single, chain>>

\* Faulty variant: calls are taken up while another call is suspended
AdmitAlways == TRUE

\* The actor takes up a call only when no other call is in flight: an
\* object processes its calls one at a time, in arrival order.
Admit == pc = "idle"

\* -------------------------------------------------------------- writeFile
\* writeFile up to its transaction: the clock is read and the parent chain
\* is made.
WriteFileBegin(path, content) ==
    /\ Admit
    /\ LET now == clock
           parentDir == ParentDir(path)
           fs1 == IF parentDir # <<>> THEN mkdir(files, parentDir, now) ELSE files
       IN /\ files' = fs1
          /\ tx' = [path |-> path, content |-> content, now |-> now, idx |-> 0,
                    files |-> <<>>, blocks |-> <<>>]
    /\ pc' = "begin"
    /\ last' = [Done("writeFile", path, content, "pending", <<>>)
                    EXCEPT !.pre = <<RowOf(files, path), BlocksOf(blocks, path)>>]
    /\ UNCHANGED <<blocks, clock>>
    /\ UNCHANGED <<shards, single, chain>>

\* state.storage.transaction is entered: it opens on the tables as they are
TxBegin ==
    /\ pc = "begin"
    /\ tx' = [tx EXCEPT !.files = files, !.blocks = blocks]
    /\ pc' = "upsert"
    /\ UNCHANGED <<files, blocks, clock, last>>
    /\ UNCHANGED <<shards, single, chain>>

\* first statement of the transaction: the upsert of the files row
TxUpsert ==
    /\ pc = "upsert"
    /\ files' = Upsert(files, tx.path, Len(tx.content), tx.now)
    /\ pc' = "delete"
    /\ UNCHANGED <<blocks, clock, tx, last>>
    /\ UNCHANGED <<shards, single, chain>>

\* second statement: DELETE FROM blocks WHERE path = ?
TxDeleteBlocks ==
    /\ pc = "delete"
    /\ blocks' = DeleteBlocks(blocks, tx.path)
    /\ pc' = "insert"
    /\ UNCHANGED <<files, clock, tx, last>>
    /\ UNCHANGED <<shards, single, chain>>

\* one turn of the loop over splitIntoBlocks(contentBuffer)
TxInsertBlock ==
    /\ pc = "insert"
    /\ tx.idx < Len(splitIntoBlocks(tx.content))
    /\ LET block == splitIntoBlocks(tx.content)[tx.idx + 1]
       IN /\ <<tx.path, block.number>> \notin DOMAIN blocks
          /\ blocks' = InsertBlock(blocks, tx.path, block)
    /\ tx' = [tx EXCEPT !.idx = tx.idx + 1]
    /\ UNCHANGED <<files, clock, pc, last>>
    /\ UNCHANGED <<shards, single, chain>>

\* the callback returns: the transaction commits and writeFile resolves
TxCommit ==
    /\ pc = "insert"
    /\ tx.idx = Len(splitIntoBlocks(tx.content))
    /\ pc' = "idle"
    /\ tx' = NoTx
    /\ last' = [last EXCEPT !.result = "ok"]
    /\ UNCHANGED <<files, blocks, clock>>
    /\ UNCHANGED <<shards, single, chain>>

\* Faulty variant: no rollback: the statements already run stay in effect
RollbackKeep(curFiles, curBlocks, snapFiles, snapBlocks) == <<curFiles, curBlocks>>

\* What a transaction that does not commit leaves: the state it opened on.
Rollback(curFiles, curBlocks, snapFiles, snapBlocks) == <<snapFiles, snapBlocks>>

\* a statement of the transaction throws, or the object crashes inside it:
\* the transaction is rolled back and writeFile rejects
TxFail ==
    /\ pc \in {"upsert", "delete", "insert"}
    /\ files' = Rollback(files, blocks, tx.files, tx.blocks)[1]
    /\ blocks' = Rollback(files, blocks, tx.files, tx.blocks)[2]
    /\ pc' = "idle"
    /\ tx' = NoTx
    /\ last' = [last EXCEPT !.result = "error", !.ret = <<pc, tx.idx>>]
    /\ UNCHANGED clock
    /\ UNCHANGED <<shards, single, chain>>

\* ----------------------------------------------------------------- unlink
Unlink(path) ==
    /\ Admit
    /\ IF path \in DOMAIN files /\ files[path].type = "file"
       THEN /\ files' = DeleteRow(files, path)
            /\ blocks' = Cascade(blocks, path)
            /\ last' = [Done("unlink", path, <<>>, "ok", <<>>)
                            EXCEPT !.pre = <<RowOf(files, path), BlocksOf(blocks, path)>>]
       ELSE /\ UNCHANGED <<files, blocks>>
            /\ last' = Done("unlink", path, <<>>, "ENOENT", <<>>)
    /\ UNCHANGED <<clock, pc, tx>>
    /\ UNCHANGED <<shards, single, chain>>

\* ------------------------------------------------------------------ mkdir
Mkdir(path) ==
    /\ Admit
    /\ files' = mkdir(files, path, clock)
    /\ last' = Done("mkdir", path, <<>>, "ok", <<>>)
    /\ UNCHANGED <<blocks, clock, pc, tx>>
    /\ UNCHANGED <<shards, single, chain>>

\* ------------------------------------------------------------------ rmdir
Rmdir(path) ==
    /\ Admit
    /\ IF hasChildren(files, path)
       THEN /\ UNCHANGED <<files, blocks>>
            /\ last' = Done("rmdir", path, <<>>, "ENOTEMPTY", <<>>)
       ELSE IF path \in DOMAIN files /\ files[path].type = "directory"
       THEN /\ files' = DeleteRow(files, path)
            /\ blocks' = Cascade(blocks, path)
            /\ last' = Done("rmdir", path, <<>>, "ok", <<>>)
       ELSE /\ UNCHANGED <<files, blocks>>
            /\ last' = Done("rmdir", path, <<>>, "ENOENT", <<>>)
    /\ UNCHANGED <<clock, pc, tx>>
    /\ UNCHANGED <<shards, single, chain>>

\* Faulty variant: a read that consumes: the blocks read are deleted
ReadFileConsuming(path) ==
    /\ Admit
    /\ LET r == assembleBlocks(files, blocks, path)
       IN last' = Done("readFile", path, <<>>, r.result, r.ret)
    /\ blocks' = DeleteBlocks(blocks, path)
    /\ UNCHANGED <<files, clock, pc, tx>>
    /\ UNCHANGED <<shards, single, chain>>

\* --------------------------------------------------------------- readFile
ReadFile(path) ==
    /\ Admit
    /\ LET r == assembleBlocks(files, blocks, path)
       IN last' = Done("readFile", path, <<>>, r.result, r.ret)
    /\ UNCHANGED <<files, blocks, clock, pc, tx>>
    /\ UNCHANGED <<shards, single, chain>>

\* ---------------------------------------------------------------- readdir
Readdir(path) ==
    /\ Admit
    /\ IF path \in DOMAIN files /\ files[path].type = "directory"
       THEN last' = Done("readdir", path, <<>>, "ok", readdirNames(files, path))
       ELSE last' = Done("readdir", path, <<>>, "ENOENT", <<>>)
    /\ UNCHANGED <<files, blocks, clock, pc, tx>>
    /\ UNCHANGED <<shards, single, chain>>

\* ------------------------------------------------------------------- stat
Stat(path) ==
    /\ Admit
    /\ IF path \in DOMAIN files
       THEN last' = Done("stat", path, <<>>, "ok", files[path])
       ELSE last' = Done("stat", path, <<>>, "ENOENT", <<>>)
    /\ UNCHANGED <<files, blocks, clock, pc, tx>>
    /\ UNCHANGED <<shards, single, chain>>

\* ================================================= mkdir, call by call
\* mkdir(path) is called: the first entry into mkdir
MkdirCall(path) ==
    /\ Admit
    /\ chain.phase = "idle"
    /\ chain' = [phase |-> "descend", op |-> "mkdir", path |-> path, content |-> <<>>,
                 stack |-> <<path>>, calls |-> 1]
    /\ last' = Done("mkdir", path, <<>>, "pending", <<>>)
    /\ UNCHANGED <<files, blocks, clock, pc, tx, shards, single>>

\* writeFile(path, content) is called: it enters mkdir for its parent, if
\* the parent is not empty, and goes on to its transaction otherwise
WriteFileCall(path, content) ==
    /\ Admit
    /\ chain.phase = "idle"
    /\ LET parentDir == ParentDir(path)
       IN chain' = IF parentDir # <<>>
                   THEN [phase |-> "descend", op |-> "writeFile", path |-> path,
                         content |-> content, stack |-> <<parentDir>>, calls |-> 1]
                   ELSE [phase |-> "write", op |-> "writeFile", path |-> path,
                         content |-> content, stack |-> <<>>, calls |-> 0]
    /\ last' = [Done("writeFile", path, content, "pending", <<>>)
                    EXCEPT !.pre = <<RowOf(files, path), BlocksOf(blocks, path)>>]
    /\ UNCHANGED <<files, blocks, clock, pc, tx, shards, single>>

\* the innermost mkdir computes parentDir: if (parentDir) it calls
\* mkdir(parentDir) and awaits it, else it goes on to its INSERT
MkdirParent ==
    /\ chain.phase = "descend"
    /\ LET top == chain.stack[Len(chain.stack)]
           parentDir == ParentDir(top)
       IN IF parentDir # <<>>
          THEN /\ Len(chain.stack) < MaxDepth
               /\ chain' = [chain EXCEPT !.stack = Append(chain.stack, parentDir),
                                         !.calls = chain.calls + 1]
          ELSE chain' = [chain EXCEPT !.phase = "insert"]
    /\ UNCHANGED <<files, blocks, clock, pc, tx, last, shards, single>>

\* the innermost mkdir runs its INSERT OR IGNORE and returns to the call
\* that awaits it: the mkdir below it, writeFile, or the caller
MkdirInsert ==
    /\ chain.phase = "insert"
    /\ LET top == chain.stack[Len(chain.stack)]
           rest == SubSeq(chain.stack, 1, Len(chain.stack) - 1)
       IN /\ files' = InsertOrIgnore(files, top, DirRow(clock))
          /\ chain' = IF rest # <<>> THEN [chain EXCEPT !.stack = rest]
                      ELSE IF chain.op = "writeFile"
                      THEN [chain EXCEPT !.stack = rest, !.phase = "write"]
                      ELSE [chain EXCEPT !.stack = rest, !.phase = "idle"]
          /\ last' = IF rest = <<>> /\ chain.op = "mkdir"
                     THEN [last EXCEPT !.result = "ok"]
                     ELSE last
    /\ UNCHANGED <<blocks, clock, pc, tx, shards, single>>

\* writeFile, its parent made, reaches state.storage.transaction
WriteFileTx ==
    /\ chain.phase = "write"
    /\ chain' = [chain EXCEPT !.phase = "idle"]
    /\ tx' = [path |-> chain.path, content |-> chain.content, now |-> clock, idx |-> 0,
              files |-> <<>>, blocks |-> <<>>]
    /\ pc' = "begin"
    /\ UNCHANGED <<files, blocks, clock, last, shards, single>>

\* ============================================================== VirtualFS
\* The methods of the actor run to their end on the tables st of one actor
\* (a call is not interleaved with another call of the same actor).
Outcome(fs, bl, result, ret) == [files |-> fs, blocks |-> bl, result |-> result, ret |-> ret]

RECURSIVE InsertBlocks(_, _, _)
\* for (const block of blocks) INSERT INTO blocks ...
InsertBlocks(bl, path, bs) ==
    IF bs = <<>> THEN bl
    ELSE InsertBlocks(InsertBlock(bl, path, Head(bs)), path, Tail(bs))

\* writeFile; `fails` tells whether the transaction is rolled back
writeFile(st, path, content, now, fails) ==
    LET parentDir == ParentDir(path)
        fs1 == IF parentDir # <<>> THEN mkdir(st.files, parentDir, now) ELSE st.files
        fs2 == Upsert(fs1, path, Len(content), now)
        bl2 == InsertBlocks(DeleteBlocks(st.blocks, path), path, splitIntoBlocks(content))
    IN IF fails
       THEN Outcome(Rollback(fs2, bl2, fs1, st.blocks)[1],
                    Rollback(fs2, bl2, fs1, st.blocks)[2], "error", <<>>)
       ELSE Outcome(fs2, bl2, "ok", <<>>)

readFile(st, path) ==
    Outcome(st.files, st.blocks, assembleBlocks(st.files, st.blocks, path).result,
            assembleBlocks(st.files, st.blocks, path).ret)

unlink(st, path) ==
    IF path \in DOMAIN st.files /\ st.files[path].type = "file"
    THEN Outcome(DeleteRow(st.files, path), Cascade(st.blocks, path), "ok", <<>>)
    ELSE Outcome(st.files, st.blocks, "ENOENT", <<>>)

rmdir(st, path) ==
    IF hasChildren(st.files, path)
    THEN Outcome(st.files, st.blocks, "ENOTEMPTY", <<>>)
    ELSE IF path \in DOMAIN st.files /\ st.files[path].type = "directory"
    THEN Outcome(DeleteRow(st.files, path), Cascade(st.blocks, path), "ok", <<>>)
    ELSE Outcome(st.files, st.blocks, "ENOENT", <<>>)

readdir(st, path) ==
    IF path \in DOMAIN st.files /\ st.files[path].type = "directory"
    THEN Outcome(st.files, st.blocks, "ok", readdirNames(st.files, path))
    ELSE Outcome(st.files, st.blocks, "ENOENT", <<>>)

stat(st, path) ==
    IF path \in DOMAIN st.files
    THEN Outcome(st.files, st.blocks, "ok", st.files[path])
    ELSE Outcome(st.files, st.blocks, "ENOENT", <<>>)

\* Faulty variant: no check of rootDir, the actor is named by whatever the
\* first segment is
getDOStubUnchecked(path) == [result |-> "ok", name |-> Split(path)[1]]

\* Faulty variant: the actor is named by the last segment of the path
getDOStubByLastPart(path) ==
    IF Split(path)[1] = <<>>
    THEN [result |-> "InvalidPath", name |-> <<>>]
    ELSE [result |-> "ok", name |-> LastPart(path)]

\* rootDir = path.split("/")[0]; throws when it is empty, else names the
\* actor idFromName(rootDir)
getDOStub(path) ==
    LET rootDir == Split(path)[1]
    IN IF rootDir = <<>>
       THEN [result |-> "InvalidPath", name |-> <<>>]
       ELSE [result |-> "ok", name |-> rootDir]

\* stub.method(path, ...): the method a call names, run on the tables st of
\* the actor behind the stub.
MethodOn(op, path, arg, st, now, fails) ==
    CASE op = "writeFile" -> writeFile(st, path, arg, now, fails)
      [] op = "readFile" -> readFile(st, path)
      [] op = "unlink" -> unlink(st, path)
      [] op = "mkdir" -> Outcome(mkdir(st.files, path, now), st.blocks, "ok", <<>>)
      [] op = "rmdir" -> rmdir(st, path)
      [] op = "readdir" -> readdir(st, path)
      [] OTHER -> stat(st, path)

\* const stub = await this.getDOStub(path); return stub.method(path, ...)
ViaStub(op, path, arg, fails) ==
    /\ LET stub == getDOStub(path)
       IN IF stub.result # "ok"
          THEN /\ last' = Done(op, path, arg, stub.result, <<>>)
               /\ UNCHANGED shards
          ELSE LET r == MethodOn(op, path, arg, shards[stub.name], clock, fails)
               IN /\ shards' = [shards EXCEPT ![stub.name] =
                                    [files |-> r.files, blocks |-> r.blocks]]
                  /\ last' = Done(op, path, arg, r.result, r.ret)
    /\ UNCHANGED <<files, blocks, clock, pc, tx, single, chain>>

VirtualFS_writeFile(path, content) ==
    \E fails \in BOOLEAN : ViaStub("writeFile", path, content, fails)

VirtualFS_readFile(path) == ViaStub("readFile", path, <<>>, FALSE)

VirtualFS_unlink(path) == ViaStub("unlink", path, <<>>, FALSE)

VirtualFS_mkdir(path) == ViaStub("mkdir", path, <<>>, FALSE)

VirtualFS_rmdir(path) == ViaStub("rmdir", path, <<>>, FALSE)

VirtualFS_readdir(path) == ViaStub("readdir", path, <<>>, FALSE)

VirtualFS_stat(path) == ViaStub("stat", path, <<>>, FALSE)

\* ============================================= the single-row engine (fs.ts)
\* A row of fs.ts's files table.  content is a BLOB column: no value (NULL)
\* for a directory, the one value written for a file.
SingleDirRow(now) == [type |-> "directory", content |-> <<>>, created_at |-> now, updated_at |-> now]

SingleFileRow(content, now) ==
    [type |-> "file", content |-> <<content>>, created_at |-> now, updated_at |-> now]

\* Faulty variant: an upsert that also sets type = excluded.type on a conflict
SingleUpsertSetsType(fs, path, content, now) ==
    IF path \in DOMAIN fs
    THEN [fs EXCEPT ![path].type = "file", ![path].content = <<content>>, ![path].updated_at = now]
    ELSE fs @@ (path :> SingleFileRow(content, now))

\* INSERT INTO files ... ON CONFLICT (path) DO UPDATE SET content, updated_at
SingleUpsert(fs, path, content, now) ==
    IF path \in DOMAIN fs
    THEN [fs EXCEPT ![path].content = <<content>>, ![path].updated_at = now]
    ELSE fs @@ (path :> SingleFileRow(content, now))

RECURSIVE SingleMkdir(_, _, _)
\* VirtualFileSystemDO.mkdir: the parent chain first, then INSERT OR IGNORE
SingleMkdir(fs, path, now) ==
    LET parentDir == ParentDir(path)
        fs1 == IF parentDir # <<>> THEN SingleMkdir(fs, parentDir, now) ELSE fs
    IN InsertOrIgnore(fs1, path, SingleDirRow(now))

SingleOutcome(fs, result, ret) == [files |-> fs, result |-> result, ret |-> ret]

\* VirtualFileSystemDO.writeFile; `fails` tells whether the statement throws
SingleWriteFile(fs, path, content, now, fails) ==
    LET parentDir == ParentDir(path)
        fs1 == IF parentDir # <<>> THEN SingleMkdir(fs, parentDir, now) ELSE fs
    IN IF fails THEN SingleOutcome(fs1, "error", <<>>)
       ELSE SingleOutcome(SingleUpsert(fs1, path, content, now), "ok", <<>>)

SingleReadFile(fs, path) ==
    IF path \in DOMAIN fs /\ fs[path].type = "file"
    THEN SingleOutcome(fs, "ok", fs[path].content[1])
    ELSE SingleOutcome(fs, "ENOENT", <<>>)

SingleUnlink(fs, path) ==
    IF path \in DOMAIN fs /\ fs[path].type = "file"
    THEN SingleOutcome(DeleteRow(fs, path), "ok", <<>>)
    ELSE SingleOutcome(fs, "ENOENT", <<>>)

SingleRmdir(fs, path) ==
    IF hasChildren(fs, path) THEN SingleOutcome(fs, "ENOTEMPTY", <<>>)
    ELSE IF path \in DOMAIN fs /\ fs[path].type = "directory"
    THEN SingleOutcome(DeleteRow(fs, path), "ok", <<>>)
    ELSE SingleOutcome(fs, "ENOENT", <<>>)

SingleReaddir(fs, path) ==
    IF path \in DOMAIN fs /\ fs[path].type = "directory"
    THEN SingleOutcome(fs, "ok", readdirNames(fs, path))
    ELSE SingleOutcome(fs, "ENOENT", <<>>)

\* the method a call names, run on the table of the single-row actor
SingleMethodOn(op, path, arg, fs, now, fails) ==
    CASE op = "writeFile" -> SingleWriteFile(fs, path, arg, now, fails)
      [] op = "readFile" -> SingleReadFile(fs, path)
      [] op = "unlink" -> SingleUnlink(fs, path)
      [] op = "mkdir" -> SingleOutcome(SingleMkdir(fs, path, now), "ok", <<>>)
      [] op = "rmdir" -> SingleRmdir(fs, path)
      [] OTHER -> SingleReaddir(fs, path)

\* One call made on both actors, the block actor (files, blocks) and the
\* single-row actor, each running it to its end.
SideBySide(op, path, arg, fails) ==
    /\ LET b == MethodOn(op, path, arg, [files |-> files, blocks |-> blocks], clock, fails)
           s == SingleMethodOn(op, path, arg, single.files, clock, fails)
       IN /\ files' = b.files
          /\ blocks' = b.blocks
          /\ last' = Done(op, path, arg, b.result, b.ret)
          /\ single' = [files |-> s.files, result |-> s.result, ret |-> s.ret]
    /\ UNCHANGED <<clock, pc, tx, shards, chain>>

Both_writeFile(path, content) == \E fails \in BOOLEAN : SideBySide("writeFile", path, content, fails)

Both_readFile(path) == SideBySide("readFile", path, <<>>, FALSE)

Both_unlink(path) == SideBySide("unlink", path, <<>>, FALSE)

Both_mkdir(path) == SideBySide("mkdir", path, <<>>, FALSE)

Both_rmdir(path) == SideBySide("rmdir", path, <<>>, FALSE)

Both_readdir(path) == SideBySide("readdir", path, <<>>, FALSE)

\* The calls the actor takes, with paths from PS and contents from CS, and
\* the steps of the transaction in flight.
Ops(PS, CS) ==
    \/ \E path \in PS, content \in CS : WriteFileBegin(path, content)
    \/ TxBegin
    \/ TxUpsert
    \/ TxDeleteBlocks
    \/ TxInsertBlock
    \/ TxCommit
    \/ TxFail
    \/ \E path \in PS : Unlink(path)
    \/ \E path \in PS : Mkdir(path)
    \/ \E path \in PS : Rmdir(path)
    \/ \E path \in PS : ReadFile(path)
    \/ \E path \in PS : Readdir(path)
    \/ \E path \in PS : Stat(path)

\* All calls within one millisecond.
Next == Ops(Paths, Contents)

Spec == Init /\ [][Next]_vars

\* The clock moves between and during calls.
NextClock == Tick \/ Ops(ClockPaths, ClockContents)

SpecClock == Init /\ [][NextClock]_vars

\* Calls on paths that differ in letter case only.
NextLike == Ops(LikePaths, LikeContents)

SpecLike == Init /\ [][NextLike]_vars

\* Calls through VirtualFS, on paths of two roots and on paths without a
\* root.
NextShards ==
    \/ \E path \in FsPaths, content \in FsContents : VirtualFS_writeFile(path, content)
    \/ \E path \in FsPaths : VirtualFS_readFile(path)
    \/ \E path \in FsPaths : VirtualFS_unlink(path)
    \/ \E path \in FsPaths : VirtualFS_mkdir(path)
    \/ \E path \in FsPaths : VirtualFS_rmdir(path)
    \/ \E path \in FsPaths : VirtualFS_readdir(path)
    \/ \E path \in FsPaths : VirtualFS_stat(path)

SpecShards == Init /\ [][NextShards]_vars

\* The same calls made on the block actor and on the single-row actor.
NextBoth ==
    \/ \E path \in BothPaths, content \in BothContents : Both_writeFile(path, content)
    \/ \E path \in BothPaths : Both_readFile(path)
    \/ \E path \in BothPaths : Both_unlink(path)
    \/ \E path \in BothPaths : Both_mkdir(path)
    \/ \E path \in BothPaths : Both_rmdir(path)
    \/ \E path \in BothPaths : Both_readdir(path)

SpecBoth == Init /\ [][NextBoth]_vars

\* mkdir and writeFile with every entry into mkdir a step of its own, on
\* paths with separators in every place.
NextChain ==
    \/ \E path \in ChainPaths : MkdirCall(path)
    \/ \E path \in ChainPaths, content \in ChainContents : WriteFileCall(path, content)
    \/ MkdirParent
    \/ MkdirInsert
    \/ WriteFileTx
    \/ TxBegin
    \/ TxUpsert
    \/ TxDeleteBlocks
    \/ TxInsertBlock
    \/ TxCommit
    \/ TxFail

\* A call that was taken up is carried on: an awaited call that can go on
\* does go on, and a transaction ends, committed or rolled back.
SpecChain ==
    /\ Init
    /\ [][NextChain]_vars
    /\ WF_vars(MkdirParent)
    /\ WF_vars(MkdirInsert)
    /\ WF_vars(WriteFileTx)
    /\ WF_vars(TxBegin)
    /\ WF_vars(TxUpsert)
    /\ WF_vars(TxDeleteBlocks)
    /\ WF_vars(TxInsertBlock)
    /\ WF_vars(TxCommit)

\* ================================================================ claims
Idle == pc = "idle"

\* ceil(size / BLOCK_SIZE)
CeilBlocks(size) == (size + BLOCK_SIZE - 1) \div BLOCK_SIZE

\* q begins with p
IsPrefix(p, q) == Len(p) <= Len(q) /\ SubSeq(q, 1, Len(p)) = p

\* some entry's path begins with path + "/"
HasDescendant(fs, path) == \E q \in DOMAIN fs : IsPrefix(path \o <<Sep>>, q)

\* the prefixes of path that end before a separator
Ancestors(path) == {SubSeq(path, 1, i - 1) : i \in {j \in 1..Len(path) : path[j] = Sep}}

\* the blocks splitIntoBlocks(content) gives, by number
SplitBlocks(content) ==
    [n \in {splitIntoBlocks(content)[k].number : k \in 1..Len(splitIntoBlocks(content))} |->
        LET k == CHOOSE j \in 1..Len(splitIntoBlocks(content)) :
                     splitIntoBlocks(content)[j].number = n
        IN splitIntoBlocks(content)[k].data]

WroteOk == Idle /\ last.op = "writeFile" /\ last.result = "ok"

WriteFailed == Idle /\ last.op = "writeFile" /\ last.result = "error"

\* C1 (as claimed): a readFile(path) issued directly after a successful
\* writeFile(path, C) succeeds and returns bytes identical to C, for every
\* path and content and in every reachable state.
C1_RoundTrip ==
    WroteOk =>
        /\ assembleBlocks(files, blocks, last.path).result = "ok"
        /\ assembleBlocks(files, blocks, last.path).ret = last.arg

\* C2: whenever no call is in flight, the block numbers stored for the path
\* of every File entry are exactly 0 .. ceil(size / BLOCK_SIZE) - 1.
C2_BlockIndices ==
    Idle => \A p \in DOMAIN files :
                files[p].type = "file" =>
                    BlockNumbers(blocks, p) = 0..(CeilBlocks(files[p].size) - 1)

\* C2 witness: a File entry of more than BLOCK_SIZE bytes written over an
\* entry that had blocks before.
C2_Witness ==
    /\ WroteOk
    /\ files[last.path].type = "file"
    /\ files[last.path].size = BLOCK_SIZE + 1
    /\ last.pre[2] # <<>>

\* C3: a writeFile(path, C) that fails inside its transaction leaves the
\* Entry row and the Block rows of path exactly as they were when the call
\* was made; one that commits leaves the row with size len(C) and exactly
\* the blocks of C: all statements take effect or none.
C3_Atomic ==
    /\ WriteFailed =>
          /\ RowOf(files, last.path) = last.pre[1]
          /\ BlocksOf(blocks, last.path) = last.pre[2]
    /\ WroteOk =>
          /\ last.path \in DOMAIN files
          /\ files[last.path].size = Len(last.arg)
          /\ BlocksOf(blocks, last.path) = SplitBlocks(last.arg)

\* C3 witness: a writeFile over a path that had two blocks failed at the
\* insert of its second block, after the upsert, the delete and one insert.
C3_Witness ==
    /\ WriteFailed
    /\ last.ret = <<"insert", 1>>
    /\ Cardinality(DOMAIN last.pre[2]) = 2
    /\ last.arg # last.pre[2][0] \o last.pre[2][1]

\* C4 (as claimed): after any sequence of calls, every entry whose path
\* contains a separator has its parent path present as a Directory entry.
C4_AncestorClosure ==
    Idle => \A p \in DOMAIN files :
                HasSep(p) =>
                    /\ ParentDir(p) \in DOMAIN files
                    /\ files[ParentDir(p)].type = "directory"

\* C5 (as claimed): after any sequence of calls, every Block row's path is
\* the path of an existing Entry of kind File.
C5_BlocksBelongToFiles ==
    Idle => \A k \in DOMAIN blocks :
                /\ k[1] \in DOMAIN files
                /\ files[k[1]].type = "file"

\* C6: no step of any operation changes the kind of an entry that exists
\* before and after it.
C6_KindImmutable ==
    [][\A p \in DOMAIN files \cap DOMAIN files' : files'[p].type = files[p].type]_vars

\* C6 witness: writeFile committed on a path that holds a Directory entry,
\* and the entry is still a Directory.
C6_Witness ==
    /\ WroteOk
    /\ last.pre[1] # <<>>
    /\ last.pre[1][1].type = "directory"
    /\ files[last.path].type = "directory"

\* C7: after a writeFile(path, C2) that follows an earlier write of path,
\* the blocks stored for path are exactly the blocks of splitting C2, same
\* numbers and same payloads.
C7_Replace == WroteOk => BlocksOf(blocks, last.path) = SplitBlocks(last.arg)

\* C7 witness: the path held two blocks and the content written has fewer.
C7_Witness ==
    /\ WroteOk
    /\ Cardinality(DOMAIN last.pre[2]) = 2
    /\ Len(last.arg) <= BLOCK_SIZE

\* C8 (as claimed): after mkdir(path) returns successfully, path and every
\* proper ancestor of path exist as entries of kind Directory.
C8_MkdirChain ==
    (Idle /\ last.op = "mkdir" /\ last.result = "ok") =>
        \A q \in {last.path} \cup Ancestors(last.path) :
            /\ q \in DOMAIN files
            /\ files[q].type = "directory"

\* C9: in the state a successful mkdir(p) leaves, a second mkdir(p), made
\* at the same or any later time, changes no entry (so the entry set and
\* every stat result stay what the first call left).
C9_MkdirIdempotent ==
    (Idle /\ last.op = "mkdir" /\ last.result = "ok") =>
        \A t \in clock..MaxClock : mkdir(files, last.path, t) = files

\* C9 witness: the clock has moved on since mkdir(p) made p and its parent.
C9_Witness ==
    /\ Idle
    /\ last.op = "mkdir"
    /\ last.path = PathAB
    /\ files[PathAB].type = "directory"
    /\ files[PathAB].created_at < clock
    /\ files[PathA].created_at < clock

\* an rmdir(path) call, as a step
RmdirStep == pc = "idle" /\ pc' = "idle" /\ clock' = clock /\ last'.op = "rmdir"

\* C10: an rmdir(path) made while some entry's path begins with path + "/"
\* fails with NotEmpty and removes nothing; any rmdir removes at most the
\* entry at path, changes no other entry and adds none.
C10_RmdirLeafOnly ==
    [][RmdirStep =>
          /\ HasDescendant(files, last'.path) =>
                /\ last'.result = "ENOTEMPTY"
                /\ files' = files
                /\ blocks' = blocks
          /\ DOMAIN files \ DOMAIN files' \subseteq {last'.path}
          /\ \A q \in DOMAIN files' : q \in DOMAIN files /\ files'[q] = files[q]
          /\ \A q \in DOMAIN files \ {last'.path} : BlocksOf(blocks', q) = BlocksOf(blocks, q)]_vars

\* C10 witness: rmdir of a directory with a descendant two levels down has
\* failed with NotEmpty.
C10_Witness ==
    /\ Idle
    /\ last.op = "rmdir"
    /\ last.result = "ENOTEMPTY"
    /\ last.path = PathA
    /\ PathAB \notin DOMAIN files
    /\ PathABC \in DOMAIN files

\* the entries whose path is path + "/" + one non-empty segment
DirectChildren(fs, path) ==
    {q \in DOMAIN fs :
        /\ IsPrefix(path \o <<Sep>>, q)
        /\ Len(q) > Len(path) + 1
        /\ ~HasSep(SubSeq(q, Len(path) + 2, Len(q)))}

\* C11 (as claimed): rmdir(p) on an existing Directory entry p succeeds and
\* removes exactly the entry p whenever no entry's path begins with
\* p + "/", whatever other entries exist.
C11_RmdirOfLeafSucceeds ==
    [][(/\ RmdirStep
        /\ last'.path \in DOMAIN files
        /\ files[last'.path].type = "directory"
        /\ ~HasDescendant(files, last'.path))
       => /\ last'.result = "ok"
          /\ DOMAIN files' = DOMAIN files \ {last'.path}
          /\ \A q \in DOMAIN files' : files'[q] = files[q]]_vars

\* C12 (as claimed): readdir(path) on an existing Directory entry returns
\* exactly the final segments of the direct children of path, each once.
C12_ReaddirDirectChildren ==
    (Idle /\ last.op = "readdir" /\ last.result = "ok") =>
        last.ret = [n \in {LastPart(q) : q \in DirectChildren(files, last.path)} |-> 1]

\* a call that runs in one step (every call but writeFile), as a step
CallStep == pc = "idle" /\ pc' = "idle" /\ clock' = clock

\* C13: a successful unlink(p) removes the File entry p (stat(p) then finds
\* no row) and every Block row of p, and changes no other entry or block.
C13_UnlinkCascade ==
    [][(CallStep /\ last'.op = "unlink" /\ last'.result = "ok")
       => /\ last'.path \in DOMAIN files
          /\ files[last'.path].type = "file"
          /\ DOMAIN files' = DOMAIN files \ {last'.path}
          /\ \A q \in DOMAIN files' : files'[q] = files[q]
          /\ DOMAIN blocks' = {k \in DOMAIN blocks : k[1] # last'.path}
          /\ \A k \in DOMAIN blocks' : blocks'[k] = blocks[k]]_vars

\* C13 witness: unlink removed a File entry of two blocks while blocks of
\* another path stay.
C13_Witness ==
    /\ Idle
    /\ last.op = "unlink"
    /\ last.result = "ok"
    /\ Cardinality(DOMAIN last.pre[2]) = 2
    /\ DOMAIN blocks # {}

\* C14 (as claimed): unlink and readFile on a path that holds a Directory
\* entry fail with NotFound and leave it in place; rmdir and readdir on a
\* path that holds a File entry fail with NotFound.
C14_WrongKindNotFound ==
    [][(CallStep /\ last'.path \in DOMAIN files)
       => /\ (files[last'.path].type = "directory" /\ last'.op \in {"unlink", "readFile"})
                => /\ last'.result = "ENOENT"
                   /\ files' = files
                   /\ blocks' = blocks
          /\ (files[last'.path].type = "file" /\ last'.op \in {"rmdir", "readdir"})
                => /\ last'.result = "ENOENT"
                   /\ files' = files
                   /\ blocks' = blocks]_vars

RECURSIVE SumLen(_, _, _)
\* the payload lengths of the blocks of path numbered in S, added up
SumLen(bl, path, S) ==
    IF S = {} THEN 0
    ELSE LET n == CHOOSE x \in S : TRUE
         IN Len(bl[<<path, n>>]) + SumLen(bl, path, S \ {n})

PayloadBytes(bl, path) == SumLen(bl, path, BlockNumbers(bl, path))

\* the size of the entry (no bytes when it has none) is what its blocks hold
SizeMatchesBlocks(fs, bl, path) ==
    PayloadBytes(bl, path) = (IF IsNull(fs[path].size) THEN 0 ELSE fs[path].size)

InFlight == pc # "idle"

\* C15: calls on one actor do not interleave.  Whenever a call can be taken
\* up (so whenever a reader can run), every entry's size matches the blocks
\* of its path; and while a writeFile is in flight every step is a step of
\* that writeFile: no other call records a result, nothing changes between
\* the making of the parent chain and the transaction, the statements
\* touch only the row and the blocks of the path written, and the call
\* ends with the tables as the statements left them or as the transaction
\* found them.
C15_NoInterleaving ==
    /\ [](Admit => \A p \in DOMAIN files : SizeMatchesBlocks(files, blocks, p))
    /\ [][InFlight =>
            /\ last'.op = "writeFile"
            /\ last'.path = tx.path
            /\ last'.arg = tx.content
            /\ pc' # "idle" =>
                  /\ tx'.path = tx.path
                  /\ tx'.content = tx.content
                  /\ tx'.now = tx.now
            /\ pc = "begin" => files' = files /\ blocks' = blocks
            /\ (pc = "upsert" /\ pc' # "idle") =>
                  /\ blocks' = blocks
                  /\ \A q \in (DOMAIN files \cup DOMAIN files') \ {tx.path} :
                        RowOf(files', q) = RowOf(files, q)
            /\ (pc \in {"delete", "insert"} /\ pc' # "idle") =>
                  /\ files' = files
                  /\ \A q \in DOMAIN files \ {tx.path} :
                        BlocksOf(blocks', q) = BlocksOf(blocks, q)
            /\ (pc # "begin" /\ pc' = "idle") =>
                  \/ files' = files /\ blocks' = blocks
                  \/ files' = tx.files /\ blocks' = tx.blocks]_vars

\* C15 witness: a writeFile over a path that had blocks is between its
\* upsert and its inserts (size and blocks differ), and no call is taken up.
C15_Witness ==
    /\ pc = "insert"
    /\ ~Admit
    /\ tx.path \in DOMAIN files
    /\ ~SizeMatchesBlocks(files, blocks, tx.path)
    /\ tx.blocks # <<>>

\* The files table as committed: what a call admitted next would find if
\* the transaction in flight were rolled back.
Committed == IF pc \in {"upsert", "delete", "insert"} THEN tx.files ELSE files

\* C16: with a clock that never goes back, created_at <= updated_at holds
\* for every entry in every state; as long as an entry stays in the
\* committed table its created_at keeps its value and its updated_at never
\* decreases, whatever writeFile or mkdir is called on its path; writeFile
\* reads the clock when it is called, and when it succeeds the entry of its
\* path has that reading as updated_at.
C16_Timestamps ==
    /\ [](\A p \in DOMAIN files : files[p].created_at <= files[p].updated_at)
    /\ [][
          /\ \A p \in DOMAIN Committed \cap DOMAIN Committed' :
                /\ Committed'[p].created_at = Committed[p].created_at
                /\ Committed'[p].updated_at >= Committed[p].updated_at
          /\ (pc = "idle" /\ pc' = "begin") => tx'.now = clock
          /\ (pc # "idle" /\ pc' # "idle") => tx'.now = tx.now
          /\ (pc # "idle" /\ pc' = "idle" /\ last'.result = "ok") =>
                /\ tx.path \in DOMAIN files'
                /\ files'[tx.path].updated_at = tx.now
       ]_vars

\* A writeFile on an entry made at an earlier time has succeeded: the entry
\* has a created_at older than its updated_at.
C16_Witness ==
    /\ WroteOk
    /\ last.pre[1] # <<>>
    /\ files[last.path].created_at < files[last.path].updated_at
    /\ files[last.path].created_at = last.pre[1][1].created_at

\* C17 (as claimed): every Directory entry has size null and every File
\* entry has a size equal to the sum of the payload lengths of its Blocks.
C17_SizeOnlyForFiles ==
    Idle => \A p \in DOMAIN files :
                /\ files[p].type = "directory" => IsNull(files[p].size)
                /\ files[p].type = "file" =>
                      /\ ~IsNull(files[p].size)
                      /\ files[p].size = PayloadBytes(blocks, p)

FirstSegment(path) == Split(path)[1]

\* C18: a VirtualFS call on a path whose first segment is r reaches the
\* actor named r: every other actor's tables stay as they are, and the
\* tables of r after the call and the call's result are those the method
\* gives on r's own tables before the call, whatever the other actors hold.
\* So the calls of different actors commute, and each actor holds what its
\* own calls alone would have left.
C18_ShardIndependence ==
    [][LET r == FirstSegment(last'.path)
       IN r # <<>> =>
            /\ \A s \in ShardNames \ {r} : shards'[s] = shards[s]
            /\ \E fails \in BOOLEAN :
                 LET out == MethodOn(last'.op, last'.path, last'.arg, shards[r], clock, fails)
                 IN /\ shards'[r] = [files |-> out.files, blocks |-> out.blocks]
                    /\ last'.result = out.result
                    /\ last'.ret = out.ret
      ]_vars

\* Both actors hold entries, and the call that ended last wrote a file of
\* actor b.
C18_Witness ==
    /\ shards[<<"a">>].files # <<>>
    /\ PathAB \in DOMAIN shards[<<"a">>].files
    /\ last.op = "writeFile" /\ last.path = PathB /\ last.result = "ok"
    /\ PathB \in DOMAIN shards[<<"b">>].files
    /\ DOMAIN shards[<<"b">>].files = {PathB}

\* C19: a VirtualFS call with the empty path or with a path whose first
\* segment is empty ends with InvalidPath, whatever the operation, and
\* leaves the tables of every actor as they were.
C19_InvalidPath ==
    [][(last'.path = <<>> \/ FirstSegment(last'.path) = <<>>) =>
            /\ last'.result = "InvalidPath"
            /\ shards' = shards
      ]_vars

\* A call on "/a" was refused while actors hold entries, none of them under
\* the empty name.
C19_Witness ==
    /\ last.path = PathLead
    /\ last.op = "mkdir"
    /\ last.result = "InvalidPath"
    /\ shards[<<"a">>].files # <<>>
    /\ shards[<<>>].files = <<>>

\* C20 (as claimed): every entry's path is non-empty and has no empty
\* segment, so it neither begins nor ends with a separator.  (That no two
\* entries share a path is the primary key of the files table: the table is
\* a function of the path.)
C20_PathsNormalised ==
    \A r \in ShardNames : \A p \in DOMAIN shards[r].files :
        /\ p # <<>>
        /\ p[Len(p)] # Sep
        /\ \A i \in 1..Len(Split(p)) : Split(p)[i] # <<>>

RECURSIVE ConcatData(_)
\* the payloads of a sequence of blocks, one after the other
ConcatData(bs) == IF bs = <<>> THEN <<>> ELSE Head(bs).data \o ConcatData(Tail(bs))

RECURSIVE ConcatStored(_, _, _, _)
\* the stored payloads of path numbered n .. count - 1, in that order
ConcatStored(bl, path, n, count) ==
    IF n >= count THEN <<>>
    ELSE bl[<<path, n>>] \o ConcatStored(bl, path, n + 1, count)

\* the layout of splitIntoBlocks(C)
LayoutOfSplit(C) ==
    LET bs == splitIntoBlocks(C)
    IN /\ Len(bs) = CeilBlocks(Len(C))
       /\ \A k \in 1..Len(bs) :
            /\ bs[k].number = k - 1
            /\ k < Len(bs) => Len(bs[k].data) = BLOCK_SIZE
            /\ k = Len(bs) => Len(bs[k].data) \in 1..BLOCK_SIZE
       /\ ConcatData(bs) = C

\* the layout of the blocks stored for path, an entry of `size` bytes
LayoutOfStored(bl, path, size) ==
    LET n == CeilBlocks(size)
    IN /\ BlockNumbers(bl, path) = 0..(n - 1)
       /\ \A k \in 0..(n - 1) :
            /\ k < n - 1 => Len(bl[<<path, k>>]) = BLOCK_SIZE
            /\ k = n - 1 => Len(bl[<<path, k>>]) \in 1..BLOCK_SIZE
       /\ Len(ConcatStored(bl, path, 0, n)) = size

\* C21: for every content C, splitIntoBlocks(C) gives blocks numbered
\* 0 .. n - 1, n = ceil(len(C) / BLOCK_SIZE), all of BLOCK_SIZE bytes but the
\* last, which has 1 .. BLOCK_SIZE bytes (none for the empty content), and
\* the payloads in order are C; whenever no call is in flight the blocks
\* stored for every File entry have this layout for the entry's size, and
\* after a successful writeFile(path, C) the stored payloads of path in
\* order are C.
C21_BlockLayout ==
    /\ \A C \in Contents : LayoutOfSplit(C)
    /\ Idle => \A p \in DOMAIN files :
                  files[p].type = "file" => LayoutOfStored(blocks, p, files[p].size)
    /\ WroteOk =>
          ConcatStored(blocks, last.path, 0, CeilBlocks(Len(last.arg))) = last.arg

\* A File entry of BLOCK_SIZE + 1 bytes is stored as a full block and a last
\* block of one byte, next to a File entry of exactly one full block.
C21_Witness ==
    /\ WroteOk
    /\ files[last.path].type = "file"
    /\ Len(last.arg) = BLOCK_SIZE + 1
    /\ Len(blocks[<<last.path, 0>>]) = BLOCK_SIZE
    /\ Len(blocks[<<last.path, 1>>]) = 1
    /\ \E q \in DOMAIN files \ {last.path} :
          files[q].type = "file" /\ files[q].size = BLOCK_SIZE

\* C22 (as claimed): unlink, rmdir, readFile, readdir and stat, when they
\* fail, leave every Entry and every Block as it was; and each of them,
\* called on a path that has no entry, fails with NotFound.
C22_FailureChangesNothing ==
    [][(CallStep /\ last'.op \in {"unlink", "rmdir", "readFile", "readdir", "stat"})
       => /\ last'.result # "ok" => (files' = files /\ blocks' = blocks)
          /\ last'.path \notin DOMAIN files => last'.result = "ENOENT"]_vars

\* The first half of C22 alone: a failed call changes no table.
C22_FailedCallKeepsTables ==
    [][(CallStep /\ last'.op \in {"unlink", "rmdir", "readFile", "readdir", "stat"}
                 /\ last'.result # "ok")
       => (files' = files /\ blocks' = blocks)]_vars

\* C23: mkdir(path) returns without error; every entry there was before
\* the call is there after it with the same kind, size, created_at and
\* updated_at; no block changes; and the entries added are Directory
\* entries, at path and at the ancestors of path that had no entry.  In
\* particular a File at path or at an ancestor of path stays as it was.
C23_MkdirFrame ==
    [][(CallStep /\ last'.op = "mkdir")
       => /\ last'.result = "ok"
          /\ blocks' = blocks
          /\ \A q \in DOMAIN files : q \in DOMAIN files' /\ files'[q] = files[q]
          /\ DOMAIN files' = DOMAIN files \cup {last'.path} \cup Ancestors(last'.path)
          /\ \A q \in DOMAIN files' \ DOMAIN files : files'[q].type = "directory"]_vars

\* mkdir was called, after the clock moved on, on a path that holds a File
\* of two blocks written at time 0: the File is as it was written.
C23_Witness ==
    /\ Idle
    /\ last.op = "mkdir"
    /\ last.path = PathAB
    /\ last.result = "ok"
    /\ clock > 0
    /\ files[PathAB].type = "file"
    /\ files[PathAB].size = BLOCK_SIZE + 1
    /\ files[PathAB].updated_at = 0
    /\ BlockNumbers(blocks, PathAB) = {0, 1}

\* C24: readFile, readdir and stat, whether they succeed or fail, leave
\* every Entry and every Block as it was, and the result they give is the
\* one the same call gives on the tables they leave: repeated with no
\* mutation in between, a read returns the same result.
C24_ReadsChangeNothing ==
    [][(CallStep /\ last'.op \in {"readFile", "readdir", "stat"})
       => /\ files' = files
          /\ blocks' = blocks
          /\ LET again == MethodOn(last'.op, last'.path, <<>>,
                                   [files |-> files', blocks |-> blocks'], clock', FALSE)
             IN /\ again.result = last'.result
                /\ again.ret = last'.ret
                /\ again.files = files'
                /\ again.blocks = blocks']_vars

\* A readFile returned the two blocks of a file, which are still stored.
C24_Witness ==
    /\ Idle
    /\ last.op = "readFile"
    /\ last.result = "ok"
    /\ Len(last.ret) = BLOCK_SIZE + 1
    /\ BlockNumbers(blocks, last.path) = {0, 1}
    /\ ConcatStored(blocks, last.path, 0, 2) = last.ret

ProperAncestors(path) == Ancestors(path) \ {<<>>}

\* C26: every call returns, with a result or an error.  mkdir, entered by
\* a call of mkdir or by writeFile for its parent, enters itself once for
\* every non-empty proper ancestor of the path, each time with a shorter
\* path that is such an ancestor, and goes no further when the parent is
\* empty; this for paths with leading, trailing and doubled separators and
\* for the empty path.
C26_Terminates ==
    /\ (last.result = "pending") ~> (last.result # "pending" /\ chain.phase = "idle" /\ pc = "idle")
    /\ [](chain.phase = "descend" => Len(chain.stack) < MaxDepth)
    /\ [][/\ Len(chain'.stack) > Len(chain.stack) /\ chain.stack # <<>> =>
                /\ chain'.stack[Len(chain'.stack)] \in ProperAncestors(chain.stack[Len(chain.stack)])
                /\ Len(chain'.stack[Len(chain'.stack)]) < Len(chain.stack[Len(chain.stack)])
          /\ (chain.phase = "descend" /\ chain'.phase = "insert") =>
                /\ ParentDir(chain.stack[Len(chain.stack)]) = <<>>
                /\ chain.calls = Cardinality(ProperAncestors(chain.path))
                                    + (IF chain.op = "mkdir" THEN 1 ELSE 0)
                /\ {chain.stack[i] : i \in 1..Len(chain.stack)} =
                        ProperAncestors(chain.path)
                            \cup (IF chain.op = "mkdir" THEN {chain.path} ELSE {})
       ]_vars

\* mkdir("a//b") has returned: it entered mkdir three times and made "a",
\* "a/" and "a//b".
C26_Witness ==
    /\ chain.phase = "idle"
    /\ pc = "idle"
    /\ last.op = "mkdir"
    /\ last.path = PathDouble
    /\ last.result = "ok"
    /\ chain.calls = 3
    /\ {PathA, PathATrail, PathDouble} \subseteq DOMAIN files

====
